---- MODULE Spec2Model ----
(***************************************************************************)
(* Model of the backslash crate (src/src/lib.rs): the four public entry    *)
(* points escape_ascii, escape_bytes, escape_unicode and escape_quotes,    *)
(* and the in-place scan of escape_ascii over its working buffer v.        *)
(*                                                                         *)
(* A text is a sequence of bytes (0..255).  The code indexes the buffer    *)
(* from 0; TLA+ sequences start at 1, so At(buf, k) reads the code's       *)
(* buf[k].  One behaviour is one call: Init chooses the entry point and    *)
(* the input, Call enters the function, every iteration of the for loop    *)
(* is one step, and the call ends in pc = "returned" (a Result value in    *)
(* result) or in pc = "panicked" (the process aborts).                     *)
(***************************************************************************)
EXTENDS Naturals, Integers, Sequences, FiniteSets

VARIABLES fn, input, v, i, n, pc, result

vars == <<fn, input, v, i, n, pc, result>>

(***************************************************************************)
(* Bytes named by the source.                                              *)
(***************************************************************************)
Backslash == 92
LowerN == 110
LowerT == 116
LowerR == 114
Zero == 48
LowerX == 120
LowerU == 117
LF == 10
TAB == 9
CR == 13
NUL == 0

\* Bounds of the model: the number of tokens an input is assembled from.
MaxTokens == 3

(***************************************************************************)
(* The helpers of lib.rs.                                                  *)
(***************************************************************************)
\* lib.rs:47-56
char_to_escape_sequence(chr) ==
    CASE chr = LowerN -> LF
      [] chr = LowerT -> TAB
      [] chr = LowerR -> CR
      [] chr = Backslash -> Backslash
      [] chr = Zero -> NUL
      [] OTHER -> chr

\* lib.rs:58-63
is_simple_escape(chr) == chr \in {LowerN, LowerT, LowerR, Backslash, Zero}

\* lib.rs:65-70
is_complex_escape(chr) == chr \in {LowerX, LowerU}

\* lib.rs:16 calls is_escapable, which the source file does not define.
\* Modelled from the escape grammar of the Ascii dialect: the simple escape
\* characters and x are recognised, every other character is not.
is_escapable(chr) == is_simple_escape(chr) \/ chr = LowerX

\* lib.rs:72-92; a byte that is no hex digit panics.
ascii_to_hex(x) ==
    CASE x \in 48..57 -> x - 48
      [] x \in 97..102 -> x - 87
      [] x \in 65..70 -> x - 55
      [] OTHER -> "panic"

(***************************************************************************)
(* Library operations the code relies on.                                  *)
(***************************************************************************)
\* buf[k] of the code (0-based).
At(buf, k) == buf[k + 1]

\* Vec::remove(k): drops the element at 0-based position k, shifting the rest.
VecRemove(buf, k) == SubSeq(buf, 1, k) \o SubSeq(buf, k + 2, Len(buf))

\* v[k] = b
VecSet(buf, k, b) == [buf EXCEPT ![k + 1] = b]

IsCont(b) == b \in 128..191

\* The length of the well-formed UTF-8 sequence that starts s, 0 when s starts
\* with none (the validation String::from_utf8 performs).
Utf8Width(s) ==
    LET b == s[1]
        c2 == IF Len(s) >= 2 THEN s[2] ELSE 0
        c3 == IF Len(s) >= 3 THEN s[3] ELSE 0
        c4 == IF Len(s) >= 4 THEN s[4] ELSE 0
    IN  CASE b \in 0..127 -> 1
          [] b \in 194..223 -> IF IsCont(c2) THEN 2 ELSE 0
          [] b = 224 -> IF c2 \in 160..191 /\ IsCont(c3) THEN 3 ELSE 0
          [] b \in (225..236) \cup {238, 239} ->
                IF IsCont(c2) /\ IsCont(c3) THEN 3 ELSE 0
          [] b = 237 -> IF c2 \in 128..159 /\ IsCont(c3) THEN 3 ELSE 0
          [] b = 240 ->
                IF c2 \in 144..191 /\ IsCont(c3) /\ IsCont(c4) THEN 4 ELSE 0
          [] b \in 241..243 ->
                IF IsCont(c2) /\ IsCont(c3) /\ IsCont(c4) THEN 4 ELSE 0
          [] b = 244 ->
                IF c2 \in 128..143 /\ IsCont(c3) /\ IsCont(c4) THEN 4 ELSE 0
          [] OTHER -> 0

RECURSIVE IsUtf8(_)
IsUtf8(s) ==
    IF Len(s) = 0 THEN TRUE
    ELSE LET w == Utf8Width(s)
         IN  w > 0 /\ IsUtf8(SubSeq(s, w + 1, Len(s)))

Ok(text) == [kind |-> "Ok", text |-> text]
Err(bytes) == [kind |-> "Err", text |-> bytes]
NoResult == [kind |-> "None", text |-> <<>>]

\* String::from_utf8(v), lib.rs:21
from_utf8(buf) == IF IsUtf8(buf) THEN Ok(buf) ELSE Err(buf)

(***************************************************************************)
(* Inputs: every &str is valid UTF-8.  An input is the concatenation of at *)
(* most MaxTokens tokens.                                                  *)
(***************************************************************************)
AsciiTokens ==
    { <<92>>, <<110>>, <<50>>,
      <<92, 110>>, <<92, 116>>, <<92, 114>>, <<92, 92>>, <<92, 48>>,
      <<92, 120, 50, 48>>, <<92, 120, 102, 50>>, <<92, 120, 50>>,
      <<92, 117>>,
      <<240, 159, 166, 128>> }

UnicodeTokens ==
    { <<72>>, <<92, 110>>,
      <<92, 117, 123, 55, 102, 102, 102, 125>>,
      <<92, 117, 123, 49, 102, 57, 56, 48, 125>> }

QuoteTokens == { <<72>>, <<92, 39>>, <<92, 34>>, <<92, 110>> }

RECURSIVE Concats(_, _)
Concats(tokens, k) ==
    IF k = 0 THEN { <<>> }
    ELSE LET shorter == Concats(tokens, k - 1)
         IN  shorter \cup { s \o t : s \in shorter, t \in tokens }

Functions == {"escape_ascii", "escape_bytes", "escape_unicode", "escape_quotes"}

InputsFor(f) ==
    CASE f \in {"escape_ascii", "escape_bytes"} -> Concats(AsciiTokens, MaxTokens)
      [] f = "escape_unicode" -> Concats(UnicodeTokens, MaxTokens)
      [] f = "escape_quotes" -> Concats(QuoteTokens, MaxTokens)

Init ==
    /\ fn \in Functions
    /\ input \in { s \in InputsFor(fn) : IsUtf8(s) }
    /\ v = <<>>
    /\ i = 0
    /\ n = 0
    /\ pc = "call"
    /\ result = NoResult

(***************************************************************************)
(* escape_ascii (lib.rs:9-22); escape_bytes (lib.rs:31-33) forwards to it. *)
(***************************************************************************)
\* The early return of lib.rs:10 taken one byte too late.
IsEmptyInput_OffByOne(s) == Len(s) < 2

\* lib.rs:10
IsEmptyInput(s) == Len(s) < 1

\* lib.rs:10-12
CallEmpty ==
    /\ pc = "call"
    /\ fn \in {"escape_ascii", "escape_bytes"}
    /\ IsEmptyInput(input)
    /\ result' = Ok(<<>>)
    /\ pc' = "returned"
    /\ UNCHANGED <<fn, input, v, i, n>>

\* lib.rs:14-15: the range 0..(v.len() - 1) is evaluated once, before the loop.
CallScan ==
    /\ pc = "call"
    /\ fn \in {"escape_ascii", "escape_bytes"}
    /\ ~IsEmptyInput(input)
    /\ v' = input
    /\ i' = 0
    /\ n' = Len(input) - 1
    /\ pc' = "loop"
    /\ UNCHANGED <<fn, input, result>>

\* lib.rs:37-39 and lib.rs:43-45: unimplemented!()
CallUnimplemented ==
    /\ pc = "call"
    /\ fn \in {"escape_unicode", "escape_quotes"}
    /\ pc' = "panicked"
    /\ UNCHANGED <<fn, input, v, i, n, result>>

\* lib.rs:16: v[i] and, when v[i] is a backslash, v[i + 1] are indexed; an
\* index that is not below v.len() panics.
IndexOutOfBounds(buf, k) ==
    IF k >= Len(buf) THEN TRUE
    ELSE At(buf, k) = Backslash /\ k + 1 >= Len(buf)

\* lib.rs:16
IsEscapeAt(buf, k) == At(buf, k) = Backslash /\ is_escapable(At(buf, k + 1))

\* lib.rs:17-18
ResolveAt(buf, k) ==
    LET shorter == VecRemove(buf, k)
    IN  VecSet(shorter, k, char_to_escape_sequence(At(shorter, k)))

IterPanic ==
    /\ pc = "loop"
    /\ i < n
    /\ IndexOutOfBounds(v, i)
    /\ pc' = "panicked"
    /\ UNCHANGED <<fn, input, v, i, n, result>>

IterEscape ==
    /\ pc = "loop"
    /\ i < n
    /\ ~IndexOutOfBounds(v, i)
    /\ IsEscapeAt(v, i)
    /\ v' = ResolveAt(v, i)
    /\ i' = i + 1
    /\ UNCHANGED <<fn, input, n, pc, result>>

IterCopy ==
    /\ pc = "loop"
    /\ i < n
    /\ ~IndexOutOfBounds(v, i)
    /\ ~IsEscapeAt(v, i)
    /\ i' = i + 1
    /\ UNCHANGED <<fn, input, v, n, pc, result>>

\* lib.rs:21
Return ==
    /\ pc = "loop"
    /\ i >= n
    /\ result' = from_utf8(v)
    /\ pc' = "returned"
    /\ UNCHANGED <<fn, input, v, i, n>>

Next ==
    \/ CallEmpty
    \/ CallScan
    \/ CallUnimplemented
    \/ IterPanic
    \/ IterEscape
    \/ IterCopy
    \/ Return

Spec == Init /\ [][Next]_vars

TypeOK ==
    /\ fn \in Functions
    /\ pc \in {"call", "loop", "returned", "panicked"}
    /\ result.kind \in {"None", "Ok", "Err"}
    /\ i \in 0..n

(***************************************************************************)
(* Vocabulary of the properties.                                           *)
(***************************************************************************)
Terminal == pc \in {"returned", "panicked"}

NoBackslash(s) == \A k \in 1..Len(s) : s[k] # Backslash

IsHexDigit(b) == b \in (48..57) \cup (97..102) \cup (65..70)

\* The value of the two hex digits h1 h2.
HexByte(h1, h2) == 16 * ascii_to_hex(h1) + ascii_to_hex(h2)

\* The text a single left-to-right scan resolving the simple escapes gives.
RECURSIVE SimpleScan(_)
SimpleScan(s) ==
    IF Len(s) = 0 THEN <<>>
    ELSE IF s[1] = Backslash /\ Len(s) >= 2 /\ s[2] \in {LowerN, LowerT, LowerR, Backslash, Zero}
         THEN <<CASE s[2] = LowerN -> LF
                  [] s[2] = LowerT -> TAB
                  [] s[2] = LowerR -> CR
                  [] s[2] = Backslash -> Backslash
                  [] s[2] = Zero -> NUL>> \o SimpleScan(SubSeq(s, 3, Len(s)))
         ELSE <<s[1]>> \o SimpleScan(Tail(s))

\* Every backslash of s starts a simple escape of the left-to-right scan.
RECURSIVE OnlySimpleEscapes(_)
OnlySimpleEscapes(s) ==
    IF Len(s) = 0 THEN TRUE
    ELSE IF s[1] = Backslash
         THEN /\ Len(s) >= 2
              /\ s[2] \in {LowerN, LowerT, LowerR, Backslash, Zero}
              /\ OnlySimpleEscapes(SubSeq(s, 3, Len(s)))
         ELSE OnlySimpleEscapes(Tail(s))

\* The number of simple escapes the left-to-right scan finds in s.
RECURSIVE EscapeCount(_)
EscapeCount(s) ==
    IF Len(s) = 0 THEN 0
    ELSE IF s[1] = Backslash /\ Len(s) >= 2 /\ s[2] \in {LowerN, LowerT, LowerR, Backslash, Zero}
         THEN 1 + EscapeCount(SubSeq(s, 3, Len(s)))
         ELSE EscapeCount(Tail(s))

\* The left-to-right scan of the simple escapes ends on a backslash that
\* belongs to no escape.
RECURSIVE EndsWithLoneBackslash(_)
EndsWithLoneBackslash(s) ==
    IF Len(s) = 0 THEN FALSE
    ELSE IF s[1] = Backslash
         THEN IF Len(s) = 1 THEN TRUE
              ELSE IF s[2] \in {LowerN, LowerT, LowerR, Backslash, Zero}
                   THEN EndsWithLoneBackslash(SubSeq(s, 3, Len(s)))
                   ELSE EndsWithLoneBackslash(Tail(s))
         ELSE EndsWithLoneBackslash(Tail(s))

\* Position k of s holds a backslash that is not the second byte of a
\* backslash-backslash escape.
IntroducerAt(s, k) ==
    /\ k \in 1..Len(s)
    /\ s[k] = Backslash
    /\ (k = 1 \/ s[k - 1] # Backslash)

\* The UTF-8 encoding of the code point cp.
Utf8Encode(cp) ==
    IF cp < 128 THEN <<cp>>
    ELSE IF cp < 2048 THEN <<192 + (cp \div 64), 128 + (cp % 64)>>
    ELSE IF cp < 65536
         THEN <<224 + (cp \div 4096), 128 + ((cp \div 64) % 64), 128 + (cp % 64)>>
         ELSE <<240 + (cp \div 262144), 128 + ((cp \div 4096) % 64),
                128 + ((cp \div 64) % 64), 128 + (cp % 64)>>

RECURSIVE HexValue(_)
HexValue(digits) ==
    IF Len(digits) = 0 THEN 0
    ELSE 16 * HexValue(SubSeq(digits, 1, Len(digits) - 1))
            + ascii_to_hex(digits[Len(digits)])

(***************************************************************************)
(* C1: for every input of ordinary bytes and simple escapes, escape_ascii  *)
(* does not abort and returns Ok with the text of the left-to-right scan:  *)
(* each escape replaced by its mapped byte, the output shorter than the    *)
(* input by the number of escapes.                                         *)
(***************************************************************************)
C1_SimpleEscapesResolved ==
    (fn = "escape_ascii" /\ OnlySimpleEscapes(input)) =>
        /\ pc # "panicked"
        /\ pc = "returned" =>
              /\ result = Ok(SimpleScan(input))
              /\ Len(result.text) = Len(input) - EscapeCount(input)

(***************************************************************************)
(* C2: escape_ascii and escape_bytes never abort: at every iteration the   *)
(* indices i and (when inspected) i + 1 are below the buffer's length.     *)
(***************************************************************************)
C2_NeverAborts ==
    fn \in {"escape_ascii", "escape_bytes"} =>
        /\ pc # "panicked"
        /\ (pc = "loop" /\ i < n) => ~IndexOutOfBounds(v, i)

(***************************************************************************)
(* C3: an input whose only backslash starts a hex escape \xHH of value at  *)
(* most 0x7F resolves under escape_ascii to Ok with the four bytes         *)
(* replaced by the byte of that value and every other byte unchanged.      *)
(***************************************************************************)
C3_HexEscapeResolved ==
    \A k \in 1..(Len(input) - 3) :
        ( /\ fn = "escape_ascii"
          /\ NoBackslash(SubSeq(input, 1, k - 1))
          /\ input[k] = Backslash
          /\ input[k + 1] = LowerX
          /\ IsHexDigit(input[k + 2])
          /\ IsHexDigit(input[k + 3])
          /\ HexByte(input[k + 2], input[k + 3]) <= 127
          /\ NoBackslash(SubSeq(input, k + 4, Len(input)))
          /\ Terminal )
        => result = Ok(SubSeq(input, 1, k - 1)
                        \o <<HexByte(input[k + 2], input[k + 3])>>
                        \o SubSeq(input, k + 4, Len(input)))

(***************************************************************************)
(* C4: an input ending with a backslash that belongs to no escape makes    *)
(* escape_ascii return Ok with an output that ends with that backslash,    *)
(* whatever precedes it.                                                   *)
(***************************************************************************)
C4_TrailingBackslashKept ==
    (fn = "escape_ascii" /\ EndsWithLoneBackslash(input) /\ Terminal) =>
        /\ pc = "returned"
        /\ result.kind = "Ok"
        /\ Len(result.text) >= 1
        /\ result.text[Len(result.text)] = Backslash

(***************************************************************************)
(* C5: for every input without a backslash, the empty input included,      *)
(* escape_ascii and escape_bytes do not abort and return Ok with a text    *)
(* equal byte for byte to the input.                                       *)
(***************************************************************************)
C5_IdentityWithoutBackslash ==
    (fn \in {"escape_ascii", "escape_bytes"} /\ NoBackslash(input)) =>
        /\ pc # "panicked"
        /\ pc = "returned" => result = Ok(input)

C5_Witness ==
    /\ fn = "escape_bytes"
    /\ pc = "returned"
    /\ NoBackslash(input)
    /\ Len(input) >= 6
    /\ \E k \in 1..Len(input) : input[k] > 127
    /\ result = Ok(input)

(***************************************************************************)
(* C6: escape_ascii returns an error for a hex escape \xHH whose value is  *)
(* 0x80 to 0xFF (the ceiling in which it differs from escape_bytes).       *)
(***************************************************************************)
C6_AsciiCeiling ==
    \A k \in 1..(Len(input) - 3) :
        ( /\ fn = "escape_ascii"
          /\ NoBackslash(SubSeq(input, 1, k - 1))
          /\ input[k] = Backslash
          /\ input[k + 1] = LowerX
          /\ IsHexDigit(input[k + 2])
          /\ IsHexDigit(input[k + 3])
          /\ HexByte(input[k + 2], input[k + 3]) >= 128
          /\ NoBackslash(SubSeq(input, k + 4, Len(input)))
          /\ Terminal )
        => (pc = "returned" /\ result.kind = "Err")

(***************************************************************************)
(* C7: when \x is followed by fewer than two hex digits before the end of  *)
(* the input, or by a non-hex character in a digit position, escape_ascii  *)
(* returns Err: no Ok value, no abort.                                     *)
(***************************************************************************)
C7_MalformedHexFails ==
    \A k \in 1..(Len(input) - 1) :
        ( /\ fn = "escape_ascii"
          /\ NoBackslash(SubSeq(input, 1, k - 1))
          /\ input[k] = Backslash
          /\ input[k + 1] = LowerX
          /\ \/ k + 3 > Len(input)
             \/ ~IsHexDigit(input[k + 2])
             \/ ~IsHexDigit(input[k + 3])
          /\ Terminal )
        => (pc = "returned" /\ result.kind = "Err")

(***************************************************************************)
(* C8: an input whose only backslash starts a Unicode escape \u{H..H} (1   *)
(* to 6 hex digits) resolves under escape_unicode to Ok with the escape    *)
(* replaced by the UTF-8 encoding of the code point.                       *)
(***************************************************************************)
C8_UnicodeEscapeResolved ==
    \A k \in 1..Len(input) : \A d \in 1..6 :
        ( /\ fn = "escape_unicode"
          /\ k + d + 3 <= Len(input)
          /\ NoBackslash(SubSeq(input, 1, k - 1))
          /\ input[k] = Backslash
          /\ input[k + 1] = LowerU
          /\ input[k + 2] = 123
          /\ \A j \in 1..d : IsHexDigit(input[k + 2 + j])
          /\ input[k + d + 3] = 125
          /\ NoBackslash(SubSeq(input, k + d + 4, Len(input)))
          /\ Terminal )
        => result = Ok(SubSeq(input, 1, k - 1)
                        \o Utf8Encode(HexValue(SubSeq(input, k + 3, k + d + 2)))
                        \o SubSeq(input, k + d + 4, Len(input)))

(***************************************************************************)
(* C9: under escape_ascii a backslash followed by a character the Ascii    *)
(* dialect does not recognise is not consumed: the call succeeds and the   *)
(* backslash and that character appear, in order, in the output.           *)
(***************************************************************************)
C9_UnrecognisedKept ==
    \A k \in 1..(Len(input) - 1) :
        ( /\ fn = "escape_ascii"
          /\ IntroducerAt(input, k)
          /\ input[k + 1] \notin {LowerN, LowerT, LowerR, Backslash, Zero, LowerX}
          /\ Terminal )
        => /\ pc = "returned"
           /\ result.kind = "Ok"
           /\ \E j \in 1..(Len(result.text) - 1) :
                 result.text[j] = Backslash /\ result.text[j + 1] = input[k + 1]

(***************************************************************************)
(* C10: the scan is one left-to-right pass in which every byte belongs to  *)
(* at most one escape: a run of m backslashes followed by n resolves to    *)
(* m \div 2 backslashes followed by n when m is even and by a newline when *)
(* m is odd (\\n gives \n as two bytes, \\\n gives a backslash and LF).    *)
(***************************************************************************)
C10_SinglePass ==
    ( /\ fn = "escape_ascii"
      /\ Len(input) >= 2
      /\ input[Len(input)] = LowerN
      /\ \A k \in 1..(Len(input) - 1) : input[k] = Backslash
      /\ Terminal )
    => LET m == Len(input) - 1
       IN  result = Ok([k \in 1..(m \div 2) |-> Backslash]
                        \o <<IF m % 2 = 0 THEN LowerN ELSE LF>>)

====
